---------------------------- MODULE Spec2Model ----------------------------
(***************************************************************************)
(* mini_cassandra: consistent hash ring (internal/hashring), coordinator   *)
(* and rebalancer (internal/cluster), replica and client HTTP handlers     *)
(* (internal/api) and the local store (internal/kv).                       *)
(*                                                                         *)
(* Strings are sequences of bytes (0..255).  A uint32 is a pair <<hi, lo>> *)
(* of 16-bit halves, so that FNV-1a is computed exactly, modulo 2^32.      *)
(***************************************************************************)
EXTENDS Integers, Sequences, FiniteSets, TLC

(***************************************************************************)
(* Bounds of the model.                                                    *)
(***************************************************************************)
\* virtual slots per physical node (main passes 100)
VNodes == 2
\* largest REPLICATION_FACTOR a node is started with
MaxR == 3
\* RingSpec: the ring is not grown beyond this many slots
MaxSlots == 3 * VNodes

(***************************************************************************)
(* Byte strings in use.                                                    *)
(***************************************************************************)
\* node ids "n1", "n2", "n3"
n1 == <<110, 49>>
n2 == <<110, 50>>
n3 == <<110, 51>>
\* node ids "gwzx" and "16cd": for every i, "gwzx#i" and "16cd#i" have the
\* same FNV-1a hash, so their virtual slots collide
nGwzx == <<103, 119, 122, 120>>
n16cd == <<49, 54, 99, 100>>

\* the key "\xff" (one byte that is not valid UTF-8)
kBad == <<255>>
\* the key "�" (U+FFFD in UTF-8)
kRepl == <<239, 191, 189>>

(***************************************************************************)
(* hash/fnv New32a, on uint32 as <<hi, lo>>.                               *)
(***************************************************************************)
RECURSIVE Xor(_, _, _)
\* bitwise exclusive or of a and b over the low `bits` bits
Xor(a, b, bits) ==
    IF bits = 0 THEN 0
    ELSE ((a + b) % 2) + 2 * Xor(a \div 2, b \div 2, bits - 1)

\* offset basis 0x811c9dc5
FnvOffset == <<33052, 40389>>

\* one byte of FNV-1a: h = (h XOR b) * 0x01000193 mod 2^32,
\* with 0x01000193 = 2^24 + 403
FnvByte(h, b) ==
    LET lo == Xor(h[2], b, 16)
        hi == h[1]
    IN  << (hi * 403 + ((lo * 403) \div 65536) + (lo % 256) * 256) % 65536,
           (lo * 403) % 65536 >>

RECURSIVE FnvFrom(_, _)
FnvFrom(h, s) ==
    IF s = <<>> THEN h ELSE FnvFrom(FnvByte(h, Head(s)), Tail(s))

\* fmt %d of a natural number
RECURSIVE Itoa(_)
Itoa(i) ==
    IF i < 10 THEN <<48 + i>> ELSE Itoa(i \div 10) \o <<48 + (i % 10)>>

\* fmt.Sprintf("%s#%d", string(n.ID), i)
VKey(id, i) == id \o <<35>> \o Itoa(i)

\* the hashes of the strings the model hashes, computed once
FnvTable ==
    [s \in {kBad, kRepl} \cup
            { VKey(id, i) : id \in {n1, n2, n3, nGwzx, n16cd}, i \in 0..VNodes } |->
        FnvFrom(FnvOffset, s)]

\* t[k] where the table t has k, else d
Lookup(t, k, d) == IF k \in DOMAIN t THEN t[k] ELSE d

hashFn(key) == Lookup(FnvTable, key, FnvFrom(FnvOffset, key))

\* a < b on uint32
U32Less(a, b) == a[1] < b[1] \/ (a[1] = b[1] /\ a[2] < b[2])

(***************************************************************************)
(* The ring: [vNodes, hashes, hashMap].                                    *)
(***************************************************************************)
NodeInfo(id, host) == [ID |-> id, Host |-> host]

\* the zero value NodeInfo{}
ZeroNode == [ID |-> <<>>, Host |-> ""]

\* Go map read: the zero value for a missing key
MapGet(m, h) == IF h \in DOMAIN m THEN m[h] ELSE ZeroNode

sortHashes(hashes) == SortSeq(hashes, U32Less)

RECURSIVE addSlots(_, _, _)
\* the loop of addNodeNoLock from slot i on
addSlots(r, n, i) ==
    IF i >= r.vNodes THEN r
    ELSE LET h == hashFn(VKey(n.ID, i))
         IN  addSlots([r EXCEPT !.hashes = Append(@, h),
                                !.hashMap = (h :> n) @@ @], n, i + 1)

addNodeNoLock(r, n) == addSlots(r, n, 0)

RECURSIVE addAll(_, _)
addAll(r, nodes) ==
    IF nodes = <<>> THEN r
    ELSE addAll(addNodeNoLock(r, Head(nodes)), Tail(nodes))

NewRing(nodes, v) ==
    LET r == addAll([vNodes |-> v, hashes |-> <<>>, hashMap |-> [h \in {} |-> ZeroNode]], nodes)
    IN  [r EXCEPT !.hashes = sortHashes(@)]

AddNodeOp(r, n) ==
    LET a == addNodeNoLock(r, n)
    IN  [a EXCEPT !.hashes = sortHashes(@)]

RECURSIVE removeLoop(_, _, _, _)
\* the loop of RemoveNode over r.hashes[i..]: (newHashes, hashMap)
removeLoop(hashes, m, id, acc) ==
    IF hashes = <<>> THEN [hashes |-> acc, hashMap |-> m]
    ELSE LET h == Head(hashes)
         IN  IF MapGet(m, h).ID = id
             THEN removeLoop(Tail(hashes),
                             [x \in DOMAIN m \ {h} |-> m[x]], id, acc)
             ELSE removeLoop(Tail(hashes), m, id, Append(acc, h))

RemoveNodeOp(r, id) ==
    LET l == removeLoop(r.hashes, r.hashMap, id, <<>>)
    IN  [r EXCEPT !.hashes = sortHashes(l.hashes), !.hashMap = l.hashMap]

RECURSIVE Search(_, _, _, _)
\* sort.Search on [i, j): the first index (0-based) whose hash is >= h
Search(hashes, h, i, j) ==
    IF i >= j THEN i
    ELSE LET m == (i + j) \div 2
         IN  IF U32Less(hashes[m + 1], h)
             THEN Search(hashes, h, m + 1, j)
             ELSE Search(hashes, h, i, m)

\* lines 126-131: the start position of the walk
StartIdx(r, key) ==
    LET idx == Search(r.hashes, hashFn(key), 0, Len(r.hashes))
    IN  IF idx = Len(r.hashes) THEN 0 ELSE idx

\* lines 117-119
ClampRF(r, rFactor) ==
    IF rFactor > Len(r.hashes) THEN Len(r.hashes) ELSE rFactor

\* the for condition of line 133
LoopCond(ls, rf) == Len(ls.replicas) < rf

\* a slip in lines 136-139: the node is appended whether seen or not
LoopBodyNoSeen(r, ls) ==
    LET node == MapGet(r.hashMap, r.hashes[ls.idx + 1])
        seen2 == ls.seen \cup {node.ID}
    IN  [idx |-> (ls.idx + 1) % Len(r.hashes),
         replicas |-> Append(ls.replicas, node),
         seen |-> seen2,
         brk |-> Cardinality(seen2) = Cardinality(DOMAIN r.hashMap)]

\* lines 134-144: one pass through the loop body; brk: the break was taken
LoopBody(r, ls) ==
    LET node == MapGet(r.hashMap, r.hashes[ls.idx + 1])
        new == node.ID \notin ls.seen
        seen2 == ls.seen \cup {node.ID}
    IN  [idx |-> (ls.idx + 1) % Len(r.hashes),
         replicas |-> IF new THEN Append(ls.replicas, node) ELSE ls.replicas,
         seen |-> seen2,
         brk |-> Cardinality(seen2) = Cardinality(DOMAIN r.hashMap)]

LoopStart(r, key) ==
    [idx |-> StartIdx(r, key), replicas |-> <<>>, seen |-> {}, brk |-> FALSE]

RECURSIVE WalkFrom(_, _, _, _)
\* the loop of lines 133-145 run from ls.  After Len(r.hashes) passes every
\* slot has been visited, replicas and seen no longer change, and neither
\* exit condition can become true: the call does not return.  (The
\* singleton set hands the next pass its loop state as a value.)
WalkFrom(r, rf, ls, fuel) ==
    IF ls.brk \/ ~LoopCond(ls, rf) THEN [returns |-> TRUE, replicas |-> ls.replicas]
    ELSE IF fuel = 0 THEN [returns |-> FALSE, replicas |-> ls.replicas]
    ELSE CHOOSE w \in { WalkFrom(r, rf, next, fuel - 1) :
                            next \in {LoopBody(r, ls)} } : TRUE

\* Ring.GetReplicasForKey: [returns, replicas]
GetReplicasForKey(r, key, rFactor) ==
    IF Len(r.hashes) = 0 \/ rFactor <= 0
    THEN [returns |-> TRUE, replicas |-> <<>>]
    ELSE WalkFrom(r, ClampRF(r, rFactor), LoopStart(r, key), Len(r.hashes) + 1)

(***************************************************************************)
(* unicode/utf8, encoding/json (strings) and net/url (query values), as    *)
(* Router and the replica handlers use them.                               *)
(***************************************************************************)
Cont(b) == b >= 128 /\ b <= 191

\* utf8.DecodeRuneInString: the width of the rune at the head of s, 0 for an
\* invalid encoding (RuneError, consumed as one byte)
RuneLen(s) ==
    LET b == s[1]
        n == Len(s)
    IN  IF b < 128 THEN 1
        ELSE IF b >= 194 /\ b <= 223
             THEN IF n >= 2 /\ Cont(s[2]) THEN 2 ELSE 0
        ELSE IF b >= 224 /\ b <= 239
             THEN IF /\ n >= 3
                     /\ s[2] >= (IF b = 224 THEN 160 ELSE 128)
                     /\ s[2] <= (IF b = 237 THEN 159 ELSE 191)
                     /\ Cont(s[3])
                  THEN 3 ELSE 0
        ELSE IF b >= 240 /\ b <= 244
             THEN IF /\ n >= 4
                     /\ s[2] >= (IF b = 240 THEN 144 ELSE 128)
                     /\ s[2] <= (IF b = 244 THEN 143 ELSE 191)
                     /\ Cont(s[3])
                     /\ Cont(s[4])
                  THEN 4 ELSE 0
        ELSE 0

\* "0123456789abcdef"[d] and "0123456789ABCDEF"[d]
HexLower(d) == IF d < 10 THEN 48 + d ELSE 87 + d
HexUpper(d) == IF d < 10 THEN 48 + d ELSE 55 + d

\* the value of a hexadecimal digit, -1 for any other byte
HexVal(b) ==
    IF b >= 48 /\ b <= 57 THEN b - 48
    ELSE IF b >= 97 /\ b <= 102 THEN b - 87
    ELSE IF b >= 65 /\ b <= 70 THEN b - 55
    ELSE -1

Drop(s, n) == SubSeq(s, n + 1, Len(s))

RECURSIVE JsonQuote(_)
\* json.Marshal of a string, without the enclosing quotes: a byte that is
\* not valid UTF-8 is written as �
JsonQuote(s) ==
    IF s = <<>> THEN <<>>
    ELSE LET b == s[1]
             w == RuneLen(s)
         IN  IF b < 128
             THEN (IF b = 34 \/ b = 92 THEN <<92, b>>
                   ELSE IF b = 10 THEN <<92, 110>>
                   ELSE IF b = 13 THEN <<92, 114>>
                   ELSE IF b = 9 THEN <<92, 116>>
                   ELSE IF b < 32 \/ b = 60 \/ b = 62 \/ b = 38
                        THEN <<92, 117, 48, 48, HexLower(b \div 16), HexLower(b % 16)>>
                   ELSE <<b>>) \o JsonQuote(Tail(s))
             ELSE IF w = 0
             THEN <<92, 117, 102, 102, 102, 100>> \o JsonQuote(Tail(s))
             ELSE IF w = 3 /\ b = 226 /\ s[2] = 128 /\ (s[3] = 168 \/ s[3] = 169)
             THEN <<92, 117, 50, 48, 50, HexLower(s[3] - 160)>> \o JsonQuote(Drop(s, 3))
             ELSE SubSeq(s, 1, w) \o JsonQuote(Drop(s, w))

\* utf8.EncodeRune for a code point below 0x10000; a surrogate half becomes
\* U+FFFD
EncodeRune(c) ==
    IF c < 128 THEN <<c>>
    ELSE IF c < 2048 THEN <<192 + (c \div 64), 128 + (c % 64)>>
    ELSE IF c >= 55296 /\ c <= 57343 THEN <<239, 191, 189>>
    ELSE <<224 + (c \div 4096), 128 + ((c \div 64) % 64), 128 + (c % 64)>>

RECURSIVE JsonUnquote(_)
\* json.Unmarshal of a string body: [ok, s]
JsonUnquote(t) ==
    IF t = <<>> THEN [ok |-> TRUE, s |-> <<>>]
    ELSE LET b == t[1]
             Rest(n, out) ==
                 LET r == JsonUnquote(Drop(t, n))
                 IN  [ok |-> r.ok, s |-> out \o r.s]
         IN  IF b = 92
             THEN IF Len(t) < 2 THEN [ok |-> FALSE, s |-> <<>>]
                  ELSE IF t[2] = 34 \/ t[2] = 92 \/ t[2] = 47 THEN Rest(2, <<t[2]>>)
                  ELSE IF t[2] = 110 THEN Rest(2, <<10>>)
                  ELSE IF t[2] = 114 THEN Rest(2, <<13>>)
                  ELSE IF t[2] = 116 THEN Rest(2, <<9>>)
                  ELSE IF t[2] = 98 THEN Rest(2, <<8>>)
                  ELSE IF t[2] = 102 THEN Rest(2, <<12>>)
                  ELSE IF /\ t[2] = 117
                          /\ Len(t) >= 6
                          /\ \A i \in 3..6 : HexVal(t[i]) >= 0
                       THEN Rest(6, EncodeRune(HexVal(t[3]) * 4096 + HexVal(t[4]) * 256
                                               + HexVal(t[5]) * 16 + HexVal(t[6])))
                  ELSE [ok |-> FALSE, s |-> <<>>]
             ELSE IF b = 34 \/ b < 32 THEN [ok |-> FALSE, s |-> <<>>]
             ELSE IF RuneLen(t) = 0 THEN Rest(1, <<239, 191, 189>>)
             ELSE Rest(RuneLen(t), SubSeq(t, 1, RuneLen(t)))

\* url.QueryEscape: bytes that stay as they are
Unreserved(b) ==
    \/ (b >= 48 /\ b <= 57)
    \/ (b >= 65 /\ b <= 90)
    \/ (b >= 97 /\ b <= 122)
    \/ b \in {45, 95, 46, 126}

RECURSIVE QueryEscape(_)
QueryEscape(s) ==
    IF s = <<>> THEN <<>>
    ELSE LET b == s[1]
         IN  (IF Unreserved(b) THEN <<b>>
              ELSE IF b = 32 THEN <<43>>
              ELSE <<37, HexUpper(b \div 16), HexUpper(b % 16)>>)
             \o QueryEscape(Tail(s))

RECURSIVE QueryUnescape(_)
\* url.QueryUnescape: [ok, s]
QueryUnescape(t) ==
    IF t = <<>> THEN [ok |-> TRUE, s |-> <<>>]
    ELSE IF t[1] = 37
    THEN IF Len(t) >= 3 /\ HexVal(t[2]) >= 0 /\ HexVal(t[3]) >= 0
         THEN LET r == QueryUnescape(Drop(t, 3))
              IN  [ok |-> r.ok, s |-> <<HexVal(t[2]) * 16 + HexVal(t[3])>> \o r.s]
         ELSE [ok |-> FALSE, s |-> <<>>]
    ELSE LET r == QueryUnescape(Tail(t))
         IN  [ok |-> r.ok, s |-> <<IF t[1] = 43 THEN 32 ELSE t[1]>> \o r.s]

\* the request bodies of the strings the model sends, encoded once
MarshalTable == [s \in {kBad, kRepl} |-> JsonQuote(s)]

\* json.Marshal of a string field
Marshal(s) == Lookup(MarshalTable, s, JsonQuote(s))

\* the decodings of those bodies, decoded once
UnmarshalTable == [t \in { JsonQuote(s) : s \in {kBad, kRepl} } |-> JsonUnquote(t)]

\* json.Unmarshal of a string field: [ok, s]
Unmarshal(t) == Lookup(UnmarshalTable, t, JsonUnquote(t))

(***************************************************************************)
(* kv.Store: a map from key to value.                                      *)
(***************************************************************************)
NewStore == [k \in {} |-> <<>>]

\* a slip in line 21: the value is appended to the one already stored
StorePutAppends(m, key, value) ==
    [k \in DOMAIN m \cup {key} |->
        IF k # key THEN m[k]
        ELSE IF key \in DOMAIN m THEN m[key] \o value ELSE value]

StorePut(m, key, value) ==
    [k \in DOMAIN m \cup {key} |-> IF k = key THEN value ELSE m[k]]

StoreGet(m, key) ==
    IF key \in DOMAIN m THEN [val |-> m[key], ok |-> TRUE]
    ELSE [val |-> <<>>, ok |-> FALSE]

\* a slip in line 34: nothing is deleted
StoreDeleteKeeps(m, key) == m

StoreDelete(m, key) == [k \in DOMAIN m \ {key} |-> m[k]]

\* Keys(): the keys present, in no particular order
StoreKeys(m) == DOMAIN m

(***************************************************************************)
(* The cluster: three processes, one per host, each with its NODE_ID.      *)
(***************************************************************************)
ClusterNodes ==
    { NodeInfo(n1, "h1:8080"), NodeInfo(n2, "h2:8080"), NodeInfo(n3, "h3:8080") }

Hosts == { n.Host : n \in ClusterNodes }

\* NODE_ID of the process that listens on host
NodeIDOf(host) == (CHOOSE n \in ClusterNodes : n.Host = host).ID

\* the processes that clients send requests to
Coordinators == {"h1:8080", "h2:8080"}

Values == {kBad, kRepl}

(***************************************************************************)
(* internal/api: the replica endpoints, on the store of the process that   *)
(* receives the request.  Each returns [status, body, store].              *)
(***************************************************************************)
HandleReplicaPut(m, body) ==
    LET k == Unmarshal(body.key)
        v == Unmarshal(body.value)
    IN  IF ~(k.ok /\ v.ok) THEN [status |-> 400, body |-> <<>>, store |-> m]
        ELSE [status |-> 200, body |-> <<>>, store |-> StorePut(m, k.s, v.s)]

HandleReplicaGet(m, query) ==
    LET q == QueryUnescape(query)
        key == IF q.ok THEN q.s ELSE <<>>
        g == StoreGet(m, key)
    IN  IF key = <<>> THEN [status |-> 400, body |-> <<>>, store |-> m]
        ELSE IF ~g.ok THEN [status |-> 404, body |-> <<>>, store |-> m]
        ELSE [status |-> 200, body |-> g.val, store |-> m]

HandleReplicaDelete(m, body) ==
    LET k == Unmarshal(body.key)
    IN  IF ~k.ok THEN [status |-> 400, body |-> <<>>, store |-> m]
        ELSE [status |-> 200, body |-> <<>>, store |-> StoreDelete(m, k.s)]

(***************************************************************************)
(* internal/cluster: Router.  st maps each host to the store of its        *)
(* process, self is the host of the router's process, down is the set of   *)
(* hosts the HTTP client cannot reach during the call.  An attempt is      *)
(* [node, how] with how one of "local", "ok", "status" (an answer >= 300), *)
(* "absent" (404 to a get) and "transport".                                *)
(***************************************************************************)
NewRouterRF(replicationFactor) ==
    IF replicationFactor < 1 THEN 1 ELSE replicationFactor

isLocal(self, node) == node.ID = NodeIDOf(self)

\* a slip in lines 87 and 174: one failed replica is let through
AnyErrorOffByOne(errs) == Len(errs) > 1

\* lines 87 and 174: was any per-replica error recorded
AnyError(errs) == Len(errs) > 0

\* lines 79-84 and 166-171: the response of a replica endpoint is taken in
Answer(acc, node, resp) ==
    [acc EXCEPT !.store[node.Host] = resp.store,
                !.errs = IF resp.status >= 300 THEN Append(@, node.Host) ELSE @,
                !.attempts = Append(@, [node |-> node,
                                        how |-> IF resp.status >= 300
                                                THEN "status" ELSE "ok"])]

RECURSIVE PutLoop(_, _, _, _, _, _, _)
\* the loop of Router.Put (lines 65-85): [store, errs, attempts]
PutLoop(st, self, key, value, replicas, down, acc) ==
    IF replicas = <<>> THEN acc
    ELSE LET node == Head(replicas)
             rest == Tail(replicas)
         IN  IF isLocal(self, node)
             THEN PutLoop(st, self, key, value, rest, down,
                    [acc EXCEPT !.store[self] = StorePut(@, key, value),
                                !.attempts = Append(@, [node |-> node, how |-> "local"])])
             ELSE IF node.Host \in down
             THEN PutLoop(st, self, key, value, rest, down,
                    [acc EXCEPT !.errs = Append(@, node.Host),
                                !.attempts = Append(@, [node |-> node, how |-> "transport"])])
             ELSE PutLoop(st, self, key, value, rest, down,
                    Answer(acc, node,
                           HandleReplicaPut(acc.store[node.Host],
                               [key |-> Marshal(key), value |-> Marshal(value)])))

\* lines 87-90 and 174-177: what Put and Delete return after the loop l
\* over the replicas
FanOut(replicas, l, msg) ==
    [returns |-> TRUE, err |-> IF AnyError(l.errs) THEN msg ELSE "",
     replicas |-> replicas, attempts |-> l.attempts, store |-> l.store]

\* the call of GetReplicasForKey did not return: nothing happens
NoReturn(st) ==
    [returns |-> FALSE, err |-> "", replicas |-> <<>>, attempts |-> <<>>,
     store |-> st]

\* lines 59-61, 146-148: no replicas
NoReplicas(st) ==
    [returns |-> TRUE, err |-> "no replicas for key", replicas |-> <<>>,
     attempts |-> <<>>, store |-> st]

\* Router.Put from line 59 on, g being what GetReplicasForKey did
PutOn(st, self, key, value, down, g) ==
    IF ~g.returns THEN NoReturn(st)
    ELSE IF Len(g.replicas) = 0 THEN NoReplicas(st)
    ELSE FanOut(g.replicas,
                PutLoop(st, self, key, value, g.replicas, down,
                        [store |-> st, errs |-> <<>>, attempts |-> <<>>]),
                "replication errors")

\* Router.Put: [returns, err, replicas, attempts, store]
RouterPut(st, self, r, rf, key, value, down) ==
    PutOn(st, self, key, value, down, GetReplicasForKey(r, key, rf))

RECURSIVE DeleteLoop(_, _, _, _, _, _)
\* the loop of Router.Delete (lines 152-172)
DeleteLoop(st, self, key, replicas, down, acc) ==
    IF replicas = <<>> THEN acc
    ELSE LET node == Head(replicas)
             rest == Tail(replicas)
         IN  IF isLocal(self, node)
             THEN DeleteLoop(st, self, key, rest, down,
                    [acc EXCEPT !.store[self] = StoreDelete(@, key),
                                !.attempts = Append(@, [node |-> node, how |-> "local"])])
             ELSE IF node.Host \in down
             THEN DeleteLoop(st, self, key, rest, down,
                    [acc EXCEPT !.errs = Append(@, node.Host),
                                !.attempts = Append(@, [node |-> node, how |-> "transport"])])
             ELSE DeleteLoop(st, self, key, rest, down,
                    Answer(acc, node,
                           HandleReplicaDelete(acc.store[node.Host],
                                               [key |-> Marshal(key)])))

\* Router.Delete from line 146 on, g being what GetReplicasForKey did
DeleteOn(st, self, key, down, g) ==
    IF ~g.returns THEN NoReturn(st)
    ELSE IF Len(g.replicas) = 0 THEN NoReplicas(st)
    ELSE FanOut(g.replicas,
                DeleteLoop(st, self, key, g.replicas, down,
                           [store |-> st, errs |-> <<>>, attempts |-> <<>>]),
                "delete replication errors")

\* Router.Delete: [returns, err, replicas, attempts, store]
RouterDelete(st, self, r, rf, key, down) ==
    DeleteOn(st, self, key, down, GetReplicasForKey(r, key, rf))

RECURSIVE GetLoop(_, _, _, _, _, _)
\* a slip in line 107: a local miss ends the walk instead of moving on
GetLoopStopsAtLocalMiss(st, self, key, replicas, down, attempts) ==
    IF replicas = <<>> THEN [val |-> <<>>, found |-> FALSE, attempts |-> attempts]
    ELSE LET node == Head(replicas)
             rest == Tail(replicas)
             Tried(how) == Append(attempts, [node |-> node, how |-> how])
         IN  IF isLocal(self, node)
             THEN LET g == StoreGet(st[self], key)
                  IN  IF g.ok
                      THEN [val |-> g.val, found |-> TRUE, attempts |-> Tried("local")]
                      ELSE [val |-> <<>>, found |-> FALSE, attempts |-> Tried("absent")]
             ELSE IF node.Host \in down
             THEN GetLoop(st, self, key, rest, down, Tried("transport"))
             ELSE LET resp == HandleReplicaGet(st[node.Host], QueryEscape(key))
                  IN  IF resp.status = 404
                      THEN GetLoop(st, self, key, rest, down, Tried("absent"))
                      ELSE IF resp.status >= 300
                      THEN GetLoop(st, self, key, rest, down, Tried("status"))
                      ELSE [val |-> resp.body, found |-> TRUE,
                            attempts |-> Tried("ok")]

\* the loop of Router.Get (lines 101-140): [val, found, attempts]
GetLoop(st, self, key, replicas, down, attempts) ==
    IF replicas = <<>> THEN [val |-> <<>>, found |-> FALSE, attempts |-> attempts]
    ELSE LET node == Head(replicas)
             rest == Tail(replicas)
             Tried(how) == Append(attempts, [node |-> node, how |-> how])
         IN  IF isLocal(self, node)
             THEN LET g == StoreGet(st[self], key)
                  IN  IF g.ok
                      THEN [val |-> g.val, found |-> TRUE, attempts |-> Tried("local")]
                      ELSE GetLoop(st, self, key, rest, down, Tried("absent"))
             ELSE IF node.Host \in down
             THEN GetLoop(st, self, key, rest, down, Tried("transport"))
             ELSE LET resp == HandleReplicaGet(st[node.Host], QueryEscape(key))
                  IN  IF resp.status = 404
                      THEN GetLoop(st, self, key, rest, down, Tried("absent"))
                      ELSE IF resp.status >= 300
                      THEN GetLoop(st, self, key, rest, down, Tried("status"))
                      ELSE [val |-> resp.body, found |-> TRUE,
                            attempts |-> Tried("ok")]

\* lines 136 and 140: what Get returns after the loop l over the replicas
Walked(replicas, l) ==
    [returns |-> TRUE, val |-> l.val, found |-> l.found, err |-> "",
     replicas |-> replicas, attempts |-> l.attempts]

\* Router.Get from line 97 on, g being what GetReplicasForKey did
GetOn(st, self, key, down, g) ==
    IF ~g.returns
    THEN [returns |-> FALSE, val |-> <<>>, found |-> FALSE, err |-> "",
          replicas |-> <<>>, attempts |-> <<>>]
    ELSE IF Len(g.replicas) = 0
    THEN [returns |-> TRUE, val |-> <<>>, found |-> FALSE,
          err |-> "no replicas for key", replicas |-> <<>>, attempts |-> <<>>]
    ELSE Walked(g.replicas, GetLoop(st, self, key, g.replicas, down, <<>>))

\* Router.Get: [returns, val, found, err, replicas, attempts]
RouterGet(st, self, r, rf, key, down) ==
    GetOn(st, self, key, down, GetReplicasForKey(r, key, rf))

(***************************************************************************)
(* internal/api: the client endpoints; the status answered.                *)
(***************************************************************************)
HandlePutDistributed(res) == IF res.err # "" THEN 502 ELSE 200

\* a slip in lines 46-49: not found is answered like an error
HandleGetNotFoundAs502(res) ==
    IF res.err # "" THEN 502 ELSE IF ~res.found THEN 502 ELSE 200

HandleGetDistributed(res) ==
    IF res.err # "" THEN 502 ELSE IF ~res.found THEN 404 ELSE 200

HandleDeleteDistributed(res) == IF res.err # "" THEN 502 ELSE 200

(***************************************************************************)
(* State.                                                                  *)
(*   ring   the Ring of the processes: all are started from one            *)
(*          CLUSTER_NODES list, and a membership change reaches all        *)
(*   call   RingSpec: a GetReplicasForKey call, pass by pass               *)
(*   store  the kv.Store of the process on each host                       *)
(*   replicationFactor   Router.replicationFactor                          *)
(*   last   the client request handled last, with what it answered         *)
(*   rb     the RebalanceLocalKeys run: its position in the scan, and what  *)
(*          it did to each key                                             *)
(*   hist   the RebalanceLocalKeys run that returned last on a process     *)
(*   mu     LockSpec: Ring.mu and Store.mu of one process                  *)
(*   th     LockSpec: the goroutines of that process                       *)
(***************************************************************************)
VARIABLES ring, call, store, replicationFactor, last, rb, hist, mu, th

vars == <<ring, call, store, replicationFactor, last, rb, hist, mu, th>>

Idle == [pc |-> "idle"]

NoRequest == [op |-> "none"]

\* no RebalanceLocalKeys run is in progress, and none is remembered
NoRebalance ==
    [state |-> "idle", self |-> "", keys |-> <<>>, pc |-> "", val |-> <<>>,
     put |-> "", down |-> {}, failed |-> {}, prev |-> {}, moved |-> {},
     kept |-> {}]

\* no RebalanceLocalKeys run has returned
NoHistory == [ok |-> FALSE, self |-> "", ring |-> <<>>, store |-> <<>>]

\* sync.RWMutex: the goroutines that hold it for reading, the one that holds
\* it for writing, and the ones blocked in Lock()
NewMutex == [readers |-> {}, writer |-> "", pending |-> {}]

\* Ring.mu and Store.mu after NewRing and NewStore
Unlocked == [ring |-> NewMutex, store |-> NewMutex]

\* no goroutine has been started
NoThreads == <<>>

RingNodes ==
    { NodeInfo(n1, "h1:8080"), NodeInfo(n2, "h2:8080"),
      NodeInfo(nGwzx, "h4:8080"), NodeInfo(n16cd, "h5:8080") }

Keys == {kBad, kRepl}

\* ids of the physical nodes that own a slot of the ring
PhysicalNodes(r) == { r.hashMap[h].ID : h \in DOMAIN r.hashMap }

\* Ring.AddNode: takes the write lock, so no read is in progress
AddNode(n) ==
    /\ call.pc = "idle"
    /\ ring' = AddNodeOp(ring, n)
    /\ UNCHANGED <<call, store, replicationFactor, last, rb, hist, mu, th>>

\* Ring.RemoveNode: takes the write lock
RemoveNode(id) ==
    /\ call.pc = "idle"
    /\ ring' = RemoveNodeOp(ring, id)
    /\ UNCHANGED <<call, store, replicationFactor, last, rb, hist, mu, th>>

\* GetReplicasForKey up to the first test of the loop condition (lines
\* 111-133); with rFactor >= 1 and no replica yet, the loop is entered
CallStart(r, key, rFactor) ==
    IF Len(r.hashes) = 0 \/ rFactor <= 0
    THEN [pc |-> "returned", key |-> key, r |-> rFactor, rf |-> 0,
          ls |-> [idx |-> 0, replicas |-> <<>>, seen |-> {}, brk |-> FALSE]]
    ELSE [pc |-> "loop", key |-> key, r |-> rFactor,
          rf |-> ClampRF(r, rFactor), ls |-> LoopStart(r, key)]

\* a caller enters GetReplicasForKey
CallBegin(key, rFactor) ==
    /\ call.pc = "idle"
    /\ call' = CallStart(ring, key, rFactor)
    /\ UNCHANGED <<ring, store, replicationFactor, last, rb, hist, mu, th>>

\* one pass through the loop body, the break test and the next test of the
\* loop condition (lines 134-145, 133)
CallLoop ==
    /\ call.pc = "loop"
    /\ LET ls == LoopBody(ring, call.ls)
       IN  call' = [call EXCEPT !.ls = ls,
                                !.pc = IF ls.brk \/ ~LoopCond(ls, call.rf)
                                       THEN "returned" ELSE "loop"]
    /\ UNCHANGED <<ring, store, replicationFactor, last, rb, hist, mu, th>>

\* the caller takes the result; the read lock is released
CallEnd ==
    /\ call.pc = "returned"
    /\ call' = Idle
    /\ UNCHANGED <<ring, store, replicationFactor, last, rb, hist, mu, th>>

(***************************************************************************)
(* RingSpec: a ring of any vNodes >= 1, grown and shrunk by AddNode and    *)
(* RemoveNode (an id may be added twice), and read by GetReplicasForKey.   *)
(***************************************************************************)
RingInit ==
    /\ \E v \in 1..VNodes : ring = NewRing(<<>>, v)
    /\ call = Idle
    /\ store = [h \in Hosts |-> NewStore]
    /\ replicationFactor = 1
    /\ last = NoRequest
    /\ rb = NoRebalance
    /\ hist = NoHistory
    /\ mu = Unlocked
    /\ th = NoThreads

RingNext ==
    \/ \E n \in RingNodes :
          /\ Len(ring.hashes) + ring.vNodes <= MaxSlots
          /\ AddNode(n)
    \/ \E n \in RingNodes : RemoveNode(n.ID)
    \/ \E k \in Keys, r \in 0..(MaxR + 1) : CallBegin(k, r)
    \/ CallLoop
    \/ CallEnd

RingSpec == RingInit /\ [][RingNext]_vars

\* a call that has started keeps running
RingFairSpec == RingSpec /\ WF_vars(CallLoop)

(***************************************************************************)
(* Spec: the cluster serving client requests.  A request is handled in one *)
(* step; a request whose GetReplicasForKey call does not return never      *)
(* answers and changes nothing.                                            *)
(***************************************************************************)
Init ==
    /\ ring = NewRing(<<NodeInfo(n1, "h1:8080"), NodeInfo(n2, "h2:8080"),
                        NodeInfo(n3, "h3:8080")>>, VNodes)
    /\ call = Idle
    /\ store = [h \in Hosts |-> NewStore]
    /\ \E rf \in 0..MaxR : replicationFactor = NewRouterRF(rf)
    /\ last = NoRequest
    /\ rb = NoRebalance
    /\ hist = NoHistory
    /\ mu = Unlocked
    /\ th = NoThreads

\* the hosts of a list of nodes
HostsOf(replicas) == { replicas[i].Host : i \in 1..Len(replicas) }

\* the hosts of the replicas of key other than the coordinator's own
RemoteHosts(self, key) ==
    HostsOf(GetReplicasForKey(ring, key, replicationFactor).replicas) \ {self}

\* the handlers once Router has returned res (or has not returned)
PutServed(self, key, value, down, res) ==
    /\ store' = res.store
    /\ last' = [op |-> "put", self |-> self, key |-> key, value |-> value,
                down |-> down, returns |-> res.returns, err |-> res.err,
                replicas |-> res.replicas, attempts |-> res.attempts,
                found |-> FALSE, val |-> <<>>,
                status |-> IF res.returns THEN HandlePutDistributed(res) ELSE 0]

GetServed(self, key, down, res) ==
    last' = [op |-> "get", self |-> self, key |-> key, value |-> <<>>,
             down |-> down, returns |-> res.returns, err |-> res.err,
             replicas |-> res.replicas, attempts |-> res.attempts,
             found |-> res.found, val |-> res.val,
             status |-> IF res.returns THEN HandleGetDistributed(res) ELSE 0]

DeleteServed(self, key, down, res) ==
    /\ store' = res.store
    /\ last' = [op |-> "delete", self |-> self, key |-> key, value |-> <<>>,
                down |-> down, returns |-> res.returns, err |-> res.err,
                replicas |-> res.replicas, attempts |-> res.attempts,
                found |-> FALSE, val |-> <<>>,
                status |-> IF res.returns THEN HandleDeleteDistributed(res) ELSE 0]

\* PUT /kv/{key} on the process at self
ClientPut(self, key, value, down) ==
    /\ last.op = "none"
    /\ PutServed(self, key, value, down,
                 RouterPut(store, self, ring, replicationFactor, key, value, down))
    /\ UNCHANGED <<ring, call, replicationFactor, rb, hist, mu, th>>

\* GET /kv/{key} on the process at self
ClientGet(self, key, down) ==
    /\ last.op = "none"
    /\ GetServed(self, key, down,
                 RouterGet(store, self, ring, replicationFactor, key, down))
    /\ UNCHANGED <<ring, call, store, replicationFactor, rb, hist, mu, th>>

\* DELETE /kv/{key} on the process at self
ClientDelete(self, key, down) ==
    /\ last.op = "none"
    /\ DeleteServed(self, key, down,
                    RouterDelete(store, self, ring, replicationFactor, key, down))
    /\ UNCHANGED <<ring, call, replicationFactor, rb, hist, mu, th>>

\* the request has been answered (or is left spinning in GetReplicasForKey)
\* and the next one is taken
Answered ==
    /\ last.op # "none"
    /\ last' = NoRequest
    /\ UNCHANGED <<ring, call, store, replicationFactor, rb, hist, mu, th>>

\* a node joins the cluster
Join(n) ==
    /\ last.op = "none"
    /\ n.ID \notin PhysicalNodes(ring)
    /\ AddNode(n)

\* a node leaves the cluster
Leave(n) ==
    /\ last.op = "none"
    /\ n.ID \in PhysicalNodes(ring)
    /\ RemoveNode(n.ID)

Next ==
    \/ /\ last.op = "none"
       /\ \E c \in Coordinators, k \in Keys, v \in Values :
             \E down \in SUBSET RemoteHosts(c, k) : ClientPut(c, k, v, down)
    \/ /\ last.op = "none"
       /\ \E c \in Coordinators, k \in Keys :
             \E down \in SUBSET RemoteHosts(c, k) : ClientGet(c, k, down)
    \/ /\ last.op = "none"
       /\ \E c \in Coordinators, k \in Keys :
             \E down \in SUBSET RemoteHosts(c, k) : ClientDelete(c, k, down)
    \/ \E n \in ClusterNodes : Join(n)
    \/ \E n \in ClusterNodes : Leave(n)
    \/ Answered

Spec == Init /\ [][Next]_vars

(***************************************************************************)
(* Router.RebalanceLocalKeys, statement by statement.  rb holds            *)
(*   state   idle, scanning, done (returned nil) or cancelled (returned    *)
(*           ctx.Err())                                                    *)
(*   self    the host of the process that runs it                          *)
(*   keys    what is left of the snapshot taken by Keys()                  *)
(*   pc      the statement the loop is at, val the value read at line 199  *)
(*   put, down   how the Router.Put of this key ended, and the replica     *)
(*           hosts that could not be reached while it ran                  *)
(*   failed, moved, kept   the keys whose Router.Put failed, that were     *)
(*           moved, and that were kept, in this run                        *)
(*   prev    the keys whose Router.Put failed in the run just before this  *)
(*           one on the same process                                       *)
(* hist holds the last run that returned, when it returned nil with no     *)
(* Router.Put failed: the process, and the ring and the stores at its end. *)
(***************************************************************************)
RECURSIVE Orders(_)
\* the orders in which Keys() can list a set of keys (map iteration order)
Orders(S) ==
    IF S = {} THEN {<<>>}
    ELSE UNION { { <<k>> \o o : o \in Orders(S \ {k}) } : k \in S }

\* a slip in lines 213-219: any replica at all counts as this node
StillReplicaAnyNode(self, replicas) == Len(replicas) > 0

\* lines 213-219: is this node in the replica list
StillReplica(self, replicas) ==
    \E i \in 1..Len(replicas) : isLocal(self, replicas[i])

\* a slip in line 228: the error of Router.Put is dropped
PutFailedNever(res) == FALSE

\* line 228: err != nil
PutFailed(res) == res.err # ""

\* the loop moves on to the next key
NextKey(b) ==
    [b EXCEPT !.keys = Tail(@), !.pc = "examine", !.val = <<>>]

\* lines 184-188: the run starts with a snapshot of the local keys
RebalanceStart(self, order) ==
    /\ rb.state = "idle"
    /\ last.op = "none"
    /\ call.pc = "idle"
    /\ order \in Orders(StoreKeys(store[self]))
    /\ rb' = [NoRebalance EXCEPT !.state = "scanning", !.self = self,
                                 !.keys = order, !.pc = "examine",
                                 !.prev = IF rb.self = self THEN rb.prev ELSE {}]
    /\ hist' = IF hist.self = self THEN hist ELSE NoHistory
    /\ UNCHANGED <<ring, call, store, replicationFactor, last, mu, th>>

\* a slip in lines 191-196: the context is also checked within a key
RbCancelWithinKey ==
    /\ rb.state = "scanning" /\ rb.keys # <<>>
    /\ rb' = [rb EXCEPT !.state = "cancelled", !.pc = "", !.put = "", !.down = {}]
    /\ UNCHANGED <<ring, call, store, replicationFactor, last, hist, mu, th>>

\* lines 191-196, the ctx.Done() case
RbCancel ==
    /\ rb.state = "scanning" /\ rb.pc = "examine" /\ rb.keys # <<>>
    /\ rb' = [rb EXCEPT !.state = "cancelled", !.pc = "", !.put = "", !.down = {}]
    /\ UNCHANGED <<ring, call, store, replicationFactor, last, hist, mu, th>>

\* lines 191-205: the default case, the read of the value, and the entry
\* into GetReplicasForKey
RbExamine ==
    /\ rb.state = "scanning" /\ rb.pc = "examine" /\ rb.keys # <<>>
    /\ call.pc = "idle"
    /\ LET g == StoreGet(store[rb.self], Head(rb.keys))
           b == [rb EXCEPT !.put = "", !.down = {}]
       IN  IF ~g.ok
           THEN /\ rb' = NextKey(b)
                /\ call' = call
           ELSE /\ rb' = [b EXCEPT !.pc = "lookup", !.val = g.val]
                /\ call' = CallStart(ring, Head(rb.keys), replicationFactor)
    /\ UNCHANGED <<ring, store, replicationFactor, last, hist, mu, th>>

\* lines 205-224: GetReplicasForKey has returned
RbDecide ==
    /\ rb.state = "scanning" /\ rb.pc = "lookup"
    /\ call.pc = "returned"
    /\ call' = Idle
    /\ LET replicas == call.ls.replicas
           key == Head(rb.keys)
       IN  IF Len(replicas) = 0 \/ StillReplica(rb.self, replicas)
           THEN rb' = NextKey([rb EXCEPT !.kept = @ \cup {key}])
           ELSE rb' = [rb EXCEPT !.pc = "push"]
    /\ UNCHANGED <<ring, store, replicationFactor, last, hist, mu, th>>

\* lines 228-232 once Router.Put has returned res
Pushed(key, down, res) ==
    /\ res.returns
    /\ store' = res.store
    /\ rb' = IF PutFailed(res)
             THEN NextKey([rb EXCEPT !.down = down, !.failed = @ \cup {key},
                                    !.put = IF res.err # "" THEN "failed" ELSE "ok"])
             ELSE [rb EXCEPT !.down = down, !.pc = "remove",
                             !.put = IF res.err # "" THEN "failed" ELSE "ok"]

\* lines 228-232: Router.Put of the key; on an error the loop continues
RbPush(down) ==
    /\ rb.state = "scanning" /\ rb.pc = "push"
    /\ Pushed(Head(rb.keys), down,
              RouterPut(store, rb.self, ring, replicationFactor, Head(rb.keys),
                        rb.val, down))
    /\ UNCHANGED <<ring, call, replicationFactor, last, hist, mu, th>>

\* lines 235-236
RbRemove ==
    /\ rb.state = "scanning" /\ rb.pc = "remove"
    /\ LET key == Head(rb.keys)
       IN  /\ store' = [store EXCEPT ![rb.self] = StoreDelete(@, key)]
           /\ rb' = NextKey([rb EXCEPT !.moved = @ \cup {key}])
    /\ UNCHANGED <<ring, call, replicationFactor, last, hist, mu, th>>

\* lines 239-240: the snapshot is exhausted
RbFinish ==
    /\ rb.state = "scanning" /\ rb.pc = "examine" /\ rb.keys = <<>>
    /\ rb' = [rb EXCEPT !.state = "done", !.pc = "", !.put = "", !.down = {}]
    /\ UNCHANGED <<ring, call, store, replicationFactor, last, hist, mu, th>>

\* line 240 reached with every Router.Put of the run having succeeded: the
\* run that returned, with the ring and the stores it left
Completed(b) ==
    IF b.state = "done" /\ b.failed = {}
    THEN [ok |-> TRUE, self |-> b.self, ring |-> ring, store |-> store]
    ELSE NoHistory

\* the caller has the result; what the run could not move is remembered
RbReturn ==
    /\ rb.state \in {"done", "cancelled"}
    /\ rb' = [NoRebalance EXCEPT !.self = rb.self, !.prev = rb.failed]
    /\ hist' = Completed(rb)
    /\ UNCHANGED <<ring, call, store, replicationFactor, last, mu, th>>

\* the cluster goes back to serving requests; the last run is forgotten
RbForget ==
    /\ rb.state = "idle" /\ rb # NoRebalance
    /\ rb' = NoRebalance
    /\ hist' = NoHistory
    /\ UNCHANGED <<ring, call, store, replicationFactor, last, mu, th>>

\* the steps of a run that has not been cancelled
RbStep ==
    \/ RbExamine
    \/ CallLoop
    \/ RbDecide
    \/ /\ rb.state = "scanning" /\ rb.pc = "push"
       /\ \E down \in SUBSET RemoteHosts(rb.self, Head(rb.keys)) : RbPush(down)
    \/ RbRemove
    \/ RbFinish

(***************************************************************************)
(* RebalanceSpec: the cluster is loaded by client requests, its ring is    *)
(* changed, and a process runs RebalanceLocalKeys, possibly again.  A run  *)
(* is not interleaved with requests or ring changes.                       *)
(***************************************************************************)
RebalanceInit ==
    /\ ring = NewRing(<<NodeInfo(n1, "h1:8080"), NodeInfo(n2, "h2:8080"),
                        NodeInfo(n3, "h3:8080")>>, VNodes)
    /\ call = Idle
    /\ store = [h \in Hosts |-> NewStore]
    /\ \E rf \in 1..MaxR : replicationFactor = NewRouterRF(rf)
    /\ last = NoRequest
    /\ rb = NoRebalance
    /\ hist = NoHistory
    /\ mu = Unlocked
    /\ th = NoThreads

RebalanceNext ==
    \/ /\ rb = NoRebalance /\ last.op = "none"
       /\ \E c \in Coordinators, k \in Keys, v \in Values :
             \E down \in SUBSET RemoteHosts(c, k) : ClientPut(c, k, v, down)
    \/ /\ rb = NoRebalance
       /\ Answered
    \/ /\ rb.state = "idle"
       /\ \E n \in ClusterNodes : Join(n)
    \/ /\ rb.state = "idle"
       /\ \E n \in ClusterNodes : Leave(n)
    \/ \E c \in Coordinators :
          \E o \in Orders(StoreKeys(store[c])) : RebalanceStart(c, o)
    \/ RbCancel
    \/ RbExamine
    \/ CallLoop
    \/ RbDecide
    \/ /\ rb.state = "scanning" /\ rb.pc = "push"
       /\ \E down \in SUBSET RemoteHosts(rb.self, Head(rb.keys)) : RbPush(down)
    \/ RbRemove
    \/ RbFinish
    \/ RbReturn
    \/ RbForget

RebalanceSpec == RebalanceInit /\ [][RebalanceNext]_vars

\* a run that is not cancelled keeps running
RebalanceFairSpec == RebalanceSpec /\ WF_vars(RbStep)

(***************************************************************************)
(* AliasSpec: CLUSTER_NODES names the host of the first process twice,     *)
(* under its NODE_ID n1 and under the id n2.  Requests and rebalance runs  *)
(* as in RebalanceSpec, with the membership left as configured.            *)
(***************************************************************************)
AliasNodes ==
    <<NodeInfo(n1, "h1:8080"), NodeInfo(n2, "h1:8080"), NodeInfo(n3, "h3:8080")>>

AliasInit ==
    /\ ring = NewRing(AliasNodes, VNodes)
    /\ call = Idle
    /\ store = [h \in Hosts |-> NewStore]
    /\ \E rf \in 1..MaxR : replicationFactor = NewRouterRF(rf)
    /\ last = NoRequest
    /\ rb = NoRebalance
    /\ hist = NoHistory
    /\ mu = Unlocked
    /\ th = NoThreads

AliasNext ==
    \/ /\ rb = NoRebalance /\ last.op = "none"
       /\ \E c \in Coordinators, k \in Keys, v \in Values :
             \E down \in SUBSET RemoteHosts(c, k) : ClientPut(c, k, v, down)
    \/ /\ rb = NoRebalance
       /\ Answered
    \/ \E c \in Coordinators :
          \E o \in Orders(StoreKeys(store[c])) : RebalanceStart(c, o)
    \/ RbCancel
    \/ RbExamine
    \/ CallLoop
    \/ RbDecide
    \/ /\ rb.state = "scanning" /\ rb.pc = "push"
       /\ \E down \in SUBSET RemoteHosts(rb.self, Head(rb.keys)) : RbPush(down)
    \/ RbRemove
    \/ RbFinish
    \/ RbReturn
    \/ RbForget

AliasSpec == AliasInit /\ [][AliasNext]_vars

(***************************************************************************)
(* LockSpec: the goroutines of the process on h1 (NODE_ID n1), with the    *)
(* two mutexes they share, Ring.mu and Store.mu, step by step between      *)
(* lock operations and transport calls:                                    *)
(*   client     an HTTP handler running Router.Put, Get or Delete          *)
(*   replica    an HTTP handler running HandleReplicaPut for a peer        *)
(*   rebalance  the goroutine of main running RebalanceLocalKeys           *)
(*   admin      a caller of Ring.AddNode or Ring.RemoveNode                *)
(* th[t] holds                                                             *)
(*   op    what the goroutine runs: put, get, delete, replica put, add,    *)
(*         remove, or the statement of RebalanceLocalKeys it is in         *)
(*         (rb.keys, rb.get, rb.lookup, rb.put, rb.delete)                 *)
(*   pc    ring.RLock, ring.Lock, store.RLock, store.Lock: blocked in that *)
(*         call; ring.walk, ring.held, store.rheld, store.held: inside the *)
(*         critical section; replicas: at the head of the loop over the    *)
(*         replica list; transport: waiting for the answer of a peer       *)
(*   todo  the replicas still to visit, errs whether one has failed, val   *)
(*         the value to put                                                *)
(* A Lock() that is blocked keeps later RLock() calls out (sync.RWMutex).  *)
(* The peers take the mutex of their own store while they serve a replica  *)
(* request, and make no call of their own.                                 *)
(***************************************************************************)
Threads == {"client", "replica", "rebalance", "admin"}

\* the host of the process
Self == "h1:8080"

\* the key and the value of the requests
TheKey == kRepl

IdleThread == [pc |-> "idle", op |-> "", todo |-> <<>>, errs |-> FALSE, val |-> <<>>]

\* sync.RWMutex
CanRLock(m) == m.writer = "" /\ m.pending = {}
RLock(m, t) == [m EXCEPT !.readers = @ \cup {t}]
\* a slip: the deferred RUnlock is missing
RUnlockMissing(m, t) == m
RUnlock(m, t) == [m EXCEPT !.readers = @ \ {t}]
LockCall(m, t) == [m EXCEPT !.pending = @ \cup {t}]
CanLock(m) == m.writer = "" /\ m.readers = {}
Lock(m, t) == [m EXCEPT !.writer = t, !.pending = @ \ {t}]
Unlock(m, t) == [m EXCEPT !.writer = ""]

\* the goroutine t goes on as c; when c is blocked in Store.mu.Lock() the
\* mutex knows it
Continue(t, c) ==
    /\ th' = [th EXCEPT ![t] = c]
    /\ mu' = IF c.pc = "store.Lock"
             THEN [mu EXCEPT !.store = LockCall(@, t)]
             ELSE mu

\* a request arrives: Router.Put, Get and Delete start with
\* GetReplicasForKey (lines 58, 96, 145)
ClientBegin(op) ==
    /\ th["client"].pc = "idle"
    /\ th' = [th EXCEPT !["client"] =
                 [IdleThread EXCEPT !.op = op, !.pc = "ring.RLock", !.val = TheKey]]
    /\ UNCHANGED <<ring, call, store, replicationFactor, last, rb, hist, mu>>

\* a peer's replica put arrives: HandleReplicaPut calls store.Put
ReplicaBegin ==
    /\ th["replica"].pc = "idle"
    /\ Continue("replica", [IdleThread EXCEPT !.op = "replica put",
                                              !.pc = "store.Lock", !.val = TheKey])
    /\ UNCHANGED <<ring, call, store, replicationFactor, last, rb, hist>>

\* RebalanceLocalKeys starts with localStore.Keys() (line 186)
RebalanceBegin ==
    /\ th["rebalance"].pc = "idle"
    /\ th' = [th EXCEPT !["rebalance"] =
                 [IdleThread EXCEPT !.op = "rb.keys", !.pc = "store.RLock"]]
    /\ UNCHANGED <<ring, call, store, replicationFactor, last, rb, hist, mu>>

\* AddNode or RemoveNode is called: r.mu.Lock() (lines 52, 69)
AdminBegin ==
    /\ th["admin"].pc = "idle"
    /\ th' = [th EXCEPT !["admin"] =
                 [IdleThread EXCEPT !.op = IF n3 \in PhysicalNodes(ring)
                                           THEN "remove" ELSE "add",
                                    !.pc = "ring.Lock"]]
    /\ mu' = [mu EXCEPT !.ring = LockCall(@, "admin")]
    /\ UNCHANGED <<ring, call, store, replicationFactor, last, rb, hist>>

\* r.mu.RLock() of GetReplicasForKey is granted (line 111)
RingRLock(t) ==
    /\ th[t].pc = "ring.RLock"
    /\ CanRLock(mu.ring)
    /\ mu' = [mu EXCEPT !.ring = RLock(@, t)]
    /\ th' = [th EXCEPT ![t].pc = "ring.walk"]
    /\ UNCHANGED <<ring, call, store, replicationFactor, last, rb, hist>>

\* what the caller does with the replicas: lines 59-61, 97-99, 146-148 for
\* the router, lines 206-228 for the rebalance
AfterLookup(c, replicas) ==
    IF c.op = "rb.lookup"
    THEN IF Len(replicas) = 0 \/ StillReplica(Self, replicas)
         THEN IdleThread
         ELSE [c EXCEPT !.op = "rb.put", !.pc = "ring.RLock"]
    ELSE IF Len(replicas) = 0 THEN IdleThread
    ELSE [c EXCEPT !.pc = "replicas", !.todo = replicas]

\* GetReplicasForKey returns g: the deferred RUnlock runs (line 112)
Looked(t, g) ==
    /\ g.returns
    /\ mu' = [mu EXCEPT !.ring = RUnlock(@, t)]
    /\ th' = [th EXCEPT ![t] = AfterLookup(th[t], g.replicas)]

\* the walk of GetReplicasForKey under the read lock; a walk that does not
\* return keeps the lock
RingRUnlock(t) ==
    /\ th[t].pc = "ring.walk"
    /\ Looked(t, GetReplicasForKey(ring, TheKey, replicationFactor))
    /\ UNCHANGED <<ring, call, store, replicationFactor, last, rb, hist>>

\* r.mu.Lock() is granted
RingLock(t) ==
    /\ th[t].pc = "ring.Lock"
    /\ CanLock(mu.ring)
    /\ mu' = [mu EXCEPT !.ring = Lock(@, t)]
    /\ th' = [th EXCEPT ![t].pc = "ring.held"]
    /\ UNCHANGED <<ring, call, store, replicationFactor, last, rb, hist>>

\* AddNode or RemoveNode changes the ring and the deferred Unlock runs
RingUnlock(t) ==
    /\ th[t].pc = "ring.held"
    /\ ring' = IF th[t].op = "add"
               THEN AddNodeOp(ring, NodeInfo(n3, "h3:8080"))
               ELSE RemoveNodeOp(ring, n3)
    /\ mu' = [mu EXCEPT !.ring = Unlock(@, t)]
    /\ th' = [th EXCEPT ![t] = IdleThread]
    /\ UNCHANGED <<call, store, replicationFactor, last, rb, hist>>

\* the head of the loops of lines 65, 101 and 152, and what follows them
AtReplica(c) ==
    IF c.todo = <<>>
    THEN IF c.op = "rb.put" /\ ~c.errs
         THEN [c EXCEPT !.op = "rb.delete", !.pc = "store.Lock"]
         ELSE IdleThread
    ELSE IF ~isLocal(Self, Head(c.todo)) THEN [c EXCEPT !.pc = "transport"]
    ELSE IF c.op = "get" THEN [c EXCEPT !.pc = "store.RLock"]
    ELSE [c EXCEPT !.pc = "store.Lock"]

\* the next replica: the local store, or a request to a peer
Dispatch(t) ==
    /\ th[t].pc = "replicas"
    /\ Continue(t, AtReplica(th[t]))
    /\ UNCHANGED <<ring, call, store, replicationFactor, last, rb, hist>>

\* s.mu.Lock() is granted (store.go lines 19, 32)
StoreLock(t) ==
    /\ th[t].pc = "store.Lock"
    /\ CanLock(mu.store)
    /\ mu' = [mu EXCEPT !.store = Lock(@, t)]
    /\ th' = [th EXCEPT ![t].pc = "store.held"]
    /\ UNCHANGED <<ring, call, store, replicationFactor, last, rb, hist>>

\* the write under the lock
Written(m, c) ==
    IF c.op \in {"put", "rb.put"} THEN StorePut(m, TheKey, c.val)
    ELSE IF c.op = "replica put"
    THEN HandleReplicaPut(m, [key |-> Marshal(TheKey), value |-> Marshal(c.val)]).store
    ELSE StoreDelete(m, TheKey)

\* Store.Put or Store.Delete writes and the deferred Unlock runs
StoreUnlock(t) ==
    /\ th[t].pc = "store.held"
    /\ store' = [store EXCEPT ![Self] = Written(@, th[t])]
    /\ mu' = [mu EXCEPT !.store = Unlock(@, t)]
    /\ th' = [th EXCEPT ![t] =
                 IF th[t].op \in {"replica put", "rb.delete"} THEN IdleThread
                 ELSE [th[t] EXCEPT !.pc = "replicas", !.todo = Tail(@)]]
    /\ UNCHANGED <<ring, call, replicationFactor, last, rb, hist>>

\* s.mu.RLock() is granted (store.go lines 25, 38)
StoreRLock(t) ==
    /\ th[t].pc = "store.RLock"
    /\ CanRLock(mu.store)
    /\ mu' = [mu EXCEPT !.store = RLock(@, t)]
    /\ th' = [th EXCEPT ![t].pc = "store.rheld"]
    /\ UNCHANGED <<ring, call, store, replicationFactor, last, rb, hist>>

\* what the caller does with what it read: line 104 for Router.Get, lines
\* 186-190 and 199-205 for the rebalance
AfterRead(c, g) ==
    IF c.op = "get"
    THEN IF g.ok THEN IdleThread ELSE [c EXCEPT !.pc = "replicas", !.todo = Tail(@)]
    ELSE IF ~g.ok THEN IdleThread
    ELSE IF c.op = "rb.keys" THEN [c EXCEPT !.op = "rb.get", !.pc = "store.RLock"]
    ELSE [c EXCEPT !.op = "rb.lookup", !.pc = "ring.RLock", !.val = g.val]

\* Store.Get or Store.Keys reads and the deferred RUnlock runs
StoreRUnlock(t) ==
    /\ th[t].pc = "store.rheld"
    /\ mu' = [mu EXCEPT !.store = RUnlock(@, t)]
    /\ th' = [th EXCEPT ![t] = AfterRead(th[t], StoreGet(store[Self], TheKey))]
    /\ UNCHANGED <<ring, call, store, replicationFactor, last, rb, hist>>

\* the peer's answer to the request of c
PeerAnswer(c) ==
    LET m == store[Head(c.todo).Host]
    IN  IF c.op = "get" THEN HandleReplicaGet(m, QueryEscape(TheKey))
        ELSE IF c.op = "delete" THEN HandleReplicaDelete(m, [key |-> Marshal(TheKey)])
        ELSE HandleReplicaPut(m, [key |-> Marshal(TheKey), value |-> Marshal(c.val)])

\* lines 79-84, 124-136, 166-171: the answer is taken in
Answers(t, resp) ==
    /\ store' = [store EXCEPT ![Head(th[t].todo).Host] = resp.store]
    /\ th' = [th EXCEPT ![t] =
                 IF th[t].op = "get" /\ resp.status < 300 THEN IdleThread
                 ELSE [th[t] EXCEPT !.pc = "replicas", !.todo = Tail(@),
                                    !.errs = @ \/ resp.status >= 300]]

\* the HTTP call to a peer ends: with the peer's answer, or with an error
\* of the transport (lines 74-77, 119-123, 161-165)
Transport(t, fails) ==
    /\ th[t].pc = "transport"
    /\ IF fails
       THEN /\ th' = [th EXCEPT ![t] = [th[t] EXCEPT !.pc = "replicas",
                                                     !.todo = Tail(@),
                                                     !.errs = TRUE]]
            /\ store' = store
       ELSE Answers(t, PeerAnswer(th[t]))
    /\ UNCHANGED <<ring, call, replicationFactor, last, rb, hist, mu>>

LockInit ==
    /\ ring = NewRing(<<NodeInfo(n1, "h1:8080"), NodeInfo(n2, "h2:8080"),
                        NodeInfo(n3, "h3:8080")>>, VNodes)
    /\ call = Idle
    /\ store = [h \in Hosts |-> NewStore]
    /\ \E rf \in 1..MaxR : replicationFactor = NewRouterRF(rf)
    /\ last = NoRequest
    /\ rb = NoRebalance
    /\ hist = NoHistory
    /\ mu = Unlocked
    /\ th = [t \in Threads |-> IdleThread]

LockNext ==
    \/ \E op \in {"put", "get", "delete"} : ClientBegin(op)
    \/ ReplicaBegin
    \/ RebalanceBegin
    \/ AdminBegin
    \/ \E t \in Threads : RingRLock(t)
    \/ \E t \in Threads : RingRUnlock(t)
    \/ \E t \in Threads : RingLock(t)
    \/ \E t \in Threads : RingUnlock(t)
    \/ \E t \in Threads : Dispatch(t)
    \/ \E t \in Threads : StoreLock(t)
    \/ \E t \in Threads : StoreUnlock(t)
    \/ \E t \in Threads : StoreRLock(t)
    \/ \E t \in Threads : StoreRUnlock(t)
    \/ \E t \in Threads, fails \in BOOLEAN : Transport(t, fails)

LockSpec == LockInit /\ [][LockNext]_vars

(***************************************************************************)
(* RaceSpec: one RebalanceLocalKeys run with the rest of the process going *)
(* on meanwhile.  The cluster is loaded by client requests and its ring is *)
(* changed as in RebalanceSpec; while the run scans, the ring may change   *)
(* between two of its statements (AddNode and RemoveNode wait for a        *)
(* GetReplicasForKey call in progress), and the replica endpoint of the    *)
(* node may serve a put of the key the run is working on.                  *)
(***************************************************************************)
\* the value "v" of a replica put that arrives during the run
ReplicaValues == {<<118>>}

\* POST /internal/replica/put on the node that runs the rebalance, for the
\* key of the current pass, after the run has read the key's value (line
\* 199) and before it deletes the key (line 235)
ReplicaPutDuringScan(key, value) ==
    /\ rb.state = "scanning" /\ rb.pc \in {"lookup", "push", "remove"}
    /\ last.op = "none"
    /\ Unmarshal(Marshal(key)).s = Head(rb.keys)
    /\ LET resp == HandleReplicaPut(store[rb.self],
                                    [key |-> Marshal(key), value |-> Marshal(value)])
       IN  /\ store' = [store EXCEPT ![rb.self] = resp.store]
           /\ last' = [op |-> "replica put", self |-> rb.self,
                       key |-> Unmarshal(Marshal(key)).s, value |-> Unmarshal(Marshal(value)).s,
                       status |-> resp.status]
    /\ UNCHANGED <<ring, call, replicationFactor, rb, hist, mu, th>>

RaceInit ==
    /\ ring = NewRing(<<NodeInfo(n1, "h1:8080"), NodeInfo(n2, "h2:8080"),
                        NodeInfo(n3, "h3:8080")>>, VNodes)
    /\ call = Idle
    /\ store = [h \in Hosts |-> NewStore]
    /\ \E rf \in 1..MaxR : replicationFactor = NewRouterRF(rf)
    /\ last = NoRequest
    /\ rb = NoRebalance
    /\ hist = NoHistory
    /\ mu = Unlocked
    /\ th = NoThreads

RaceNext ==
    \/ /\ rb = NoRebalance /\ last.op = "none"
       /\ \E c \in Coordinators, k \in Keys, v \in Values :
             \E down \in SUBSET RemoteHosts(c, k) : ClientPut(c, k, v, down)
    \/ Answered
    \/ /\ rb.state \in {"idle", "scanning"}
       /\ \E n \in ClusterNodes : Join(n)
    \/ /\ rb.state \in {"idle", "scanning"}
       /\ \E n \in ClusterNodes : Leave(n)
    \/ \E c \in Coordinators :
          \E o \in Orders(StoreKeys(store[c])) : RebalanceStart(c, o)
    \/ \E k \in Keys, v \in ReplicaValues : ReplicaPutDuringScan(k, v)
    \/ RbExamine
    \/ CallLoop
    \/ RbDecide
    \/ /\ rb.state = "scanning" /\ rb.pc = "push"
       /\ \E down \in SUBSET RemoteHosts(rb.self, Head(rb.keys)) : RbPush(down)
    \/ RbRemove
    \/ RbFinish

RaceSpec == RaceInit /\ [][RaceNext]_vars

(***************************************************************************)
(* Checks of the model itself.                                             *)
(***************************************************************************)
\* spec.md P10: H("foo") = 0xA9F37ED7
HashFoo == hashFn(<<102, 111, 111>>) = <<43507, 32471>>

\* the operator GetReplicasForKey returns what the stepped call returns, and
\* the stepped call does not return where the operator says it does not
WalkAgrees ==
    call.pc = "returned" =>
        LET g == GetReplicasForKey(ring, call.key, call.r)
        IN  g.returns /\ g.replicas = call.ls.replicas

\* where the operator says the call returns, the stepped call returns
WalkReturns ==
    (call.pc = "loop" /\ GetReplicasForKey(ring, call.key, call.r).returns)
        ~> (call.pc = "returned")

Min(a, b) == IF a < b THEN a ELSE b

(***************************************************************************)
(* C1: on a ring with N >= 1 physical nodes, GetReplicasForKey(k, r) with  *)
(* r >= 1 returns, and the list it returns has exactly min(r, N) entries.  *)
(***************************************************************************)
C1_ReturnsMinLength ==
    (call.pc = "loop" /\ call.r >= 1 /\ PhysicalNodes(ring) # {})
        ~> (/\ call.pc = "returned"
            /\ Len(call.ls.replicas)
                   = Min(call.r, Cardinality(PhysicalNodes(ring))))

\* a call on a single-node ring with r larger than 1 has collected the one
\* node and is still in the loop
C1_SingleNodeStillWalking ==
    /\ call.pc = "loop"
    /\ call.r > 1
    /\ Cardinality(PhysicalNodes(ring)) = 1
    /\ Len(call.ls.replicas) = 1

(***************************************************************************)
(* C2: every call of GetReplicasForKey terminates: the walk stops as soon  *)
(* as every physical node of the ring has been visited.                    *)
(***************************************************************************)
C2_WalkTerminates == (call.pc = "loop") ~> (call.pc = "returned")

\* the walk has visited every physical node and goes on
C2_AllSeenStillWalking ==
    /\ call.pc = "loop"
    /\ call.ls.seen = PhysicalNodes(ring)

(***************************************************************************)
(* The client request handled last.                                        *)
(***************************************************************************)
\* the request returned from Router (it did not stay in GetReplicasForKey)
Returned(op) == last.op = op /\ last.returns

\* the host of the i-th replica of the request
ReplicaHost(i) == last.replicas[i].Host

Holds(host, key, value) == key \in DOMAIN store[host] /\ store[host][key] = value

\* a string as a replica endpoint reads it from the JSON body
OnTheWire(s) == Unmarshal(Marshal(s)).s

\* the i-th replica was written or deleted (locally or by its endpoint)
Accepted(i) == last.attempts[i].how \in {"local", "ok"}

\* the i-th replica failed: transport error or status >= 300
Failed(i) == last.attempts[i].how \in {"transport", "status"}

(***************************************************************************)
(* C3: after Router.Put(k, v) returns with no error, the store of every    *)
(* node of the coordinator's replica list holds k with value v.            *)
(***************************************************************************)
C3_PutReachesEveryReplica ==
    (Returned("put") /\ last.err = "") =>
        \A i \in 1..Len(last.replicas) :
            Holds(ReplicaHost(i), last.key, last.value)

\* a put of strings that are valid UTF-8 returned with no error after
\* writing a remote replica
C3_RemotePutDone ==
    /\ Returned("put") /\ last.err = ""
    /\ \E i \in 1..Len(last.attempts) : last.attempts[i].how = "ok"
    /\ \E i \in 1..Len(last.attempts) : last.attempts[i].how = "local"
    /\ \A i \in 1..Len(last.replicas) :
           Holds(ReplicaHost(i), last.key, last.value)

(***************************************************************************)
(* C4: after Router.Delete(k) returns with no error, no node of the        *)
(* coordinator's replica list holds k.                                     *)
(***************************************************************************)
C4_DeleteReachesEveryReplica ==
    (Returned("delete") /\ last.err = "") =>
        \A i \in 1..Len(last.replicas) :
            last.key \notin DOMAIN store[ReplicaHost(i)]

\* a delete returned with no error after a remote replica answered, and no
\* replica holds the key
C4_RemoteDeleteDone ==
    /\ Returned("delete") /\ last.err = ""
    /\ \E i \in 1..Len(last.attempts) : last.attempts[i].how = "ok"
    /\ \A i \in 1..Len(last.replicas) :
           last.key \notin DOMAIN store[ReplicaHost(i)]

(***************************************************************************)
(* C5: Router.Put and Router.Delete attempt every replica of the list, in  *)
(* order, also after a failure; they return an error exactly when the list *)
(* is empty or a remote replica failed; and what the replicas that         *)
(* accepted have applied is still in place when the error is returned.     *)
(***************************************************************************)
C5_AllAttemptedErrorIffFailure ==
    ((last.op = "put" \/ last.op = "delete") /\ last.returns) =>
        /\ Len(last.attempts) = Len(last.replicas)
        /\ \A i \in 1..Len(last.replicas) :
               /\ last.attempts[i].node = last.replicas[i]
               /\ Accepted(i) \/ Failed(i)
               /\ Failed(i) => ReplicaHost(i) # last.self
        /\ (last.err # "") <=>
               (last.replicas = <<>> \/ \E i \in 1..Len(last.replicas) : Failed(i))
        /\ (last.status = 502) <=> (last.err # "")
        /\ \A i \in 1..Len(last.replicas) :
               Accepted(i) =>
                   LET k == IF last.attempts[i].how = "local"
                            THEN last.key ELSE OnTheWire(last.key)
                       v == IF last.attempts[i].how = "local"
                            THEN last.value ELSE OnTheWire(last.value)
                   IN  IF last.op = "put"
                       THEN Holds(ReplicaHost(i), k, v)
                       ELSE k \notin DOMAIN store[ReplicaHost(i)]

\* a put returned the replication error after a replica failed and a later
\* replica of the list accepted the write
C5_PartialPut ==
    /\ Returned("put") /\ last.err # ""
    /\ \E i, j \in 1..Len(last.replicas) :
           i < j /\ Failed(i) /\ last.attempts[j].how = "ok"
    /\ \E i, j \in 1..Len(last.replicas) :
           i < j /\ Failed(i) /\ last.attempts[j].how = "local"

(***************************************************************************)
(* C6: Router.Get tries the replicas in list order and returns the value   *)
(* of the first that answers present; it contacts no replica after that    *)
(* one; when none answers present it returns not found with no error.      *)
(***************************************************************************)
\* the i-th replica of the list would answer a get of the key with a value
AnswersPresent(i) ==
    /\ last.key \in DOMAIN store[ReplicaHost(i)]
    /\ ReplicaHost(i) = last.self \/ ReplicaHost(i) \notin last.down

C6_GetFirstPresentInOrder ==
    (Returned("get") /\ last.replicas # <<>>) =>
        LET hits == { i \in 1..Len(last.replicas) : AnswersPresent(i) }
        IN  /\ last.err = ""
            /\ \A i \in 1..Len(last.attempts) :
                   last.attempts[i].node = last.replicas[i]
            /\ IF hits = {}
               THEN /\ ~last.found
                    /\ Len(last.attempts) = Len(last.replicas)
               ELSE LET f == CHOOSE i \in hits : \A j \in hits : i <= j
                    IN  /\ last.found
                        /\ last.val = store[ReplicaHost(f)][last.key]
                        /\ Len(last.attempts) = f

\* a get skipped an absent replica and an unreachable one, and returned the
\* value of a later replica that holds another value than the last replica
C6_GetSkipsThenHits ==
    /\ Returned("get") /\ last.found
    /\ Len(last.attempts) = 2
    /\ Len(last.replicas) = 3
    /\ last.attempts[1].how \in {"absent", "transport"}
    /\ last.key \in DOMAIN store[ReplicaHost(3)]
    /\ store[ReplicaHost(3)][last.key] # last.val

(***************************************************************************)
(* C7: GET /kv/{key} answers 502 when every replica of the list failed     *)
(* with a transport error, and 404 only on not-found.                      *)
(***************************************************************************)
\* every replica of the list was tried and failed with a transport error
TransportExhausted ==
    /\ Returned("get") /\ last.replicas # <<>>
    /\ Len(last.attempts) = Len(last.replicas)
    /\ \A i \in 1..Len(last.attempts) : last.attempts[i].how = "transport"

C7_TransportExhaustedIs502 == TransportExhausted => last.status = 502

\* C7 as the code has it: GET answers 502 exactly when the replica list is empty;
\* when the walk is exhausted, by absence or by transport failures, it
\* answers 404, and 200 with the value otherwise.
C7_ExhaustedIs404 ==
    Returned("get") =>
        /\ (last.status = 502) <=> (last.replicas = <<>>)
        /\ (last.status = 404) <=>
               (/\ last.replicas # <<>>
                /\ Len(last.attempts) = Len(last.replicas)
                /\ \A i \in 1..Len(last.attempts) :
                       last.attempts[i].how \in {"absent", "transport", "status"})
        /\ (last.status = 200) <=> last.found

\* a get whose replicas were all unreachable answered 404
C7_AllUnreachable404 ==
    /\ TransportExhausted
    /\ Len(last.replicas) >= 2
    /\ last.status = 404

(***************************************************************************)
(* The rebalance run.                                                      *)
(***************************************************************************)
\* the node on host is one of the replicas of key in the current ring
Owns(host, key) ==
    LET g == GetReplicasForKey(ring, key, replicationFactor)
    IN  /\ g.returns
        /\ \E i \in 1..Len(g.replicas) : g.replicas[i].ID = NodeIDOf(host)

(***************************************************************************)
(* C8: after RebalanceLocalKeys has run on a node, every key still present *)
(* in the LocalStore of any node is held by a node that is one of its      *)
(* replicas, or a Router.Put for the key failed during the scan.  (Stated  *)
(* for the key that is not valid UTF-8: a store holds it only by a local   *)
(* write, as the client sent it.)                                          *)
(***************************************************************************)
C8_EveryStoreOwnedOrFailed ==
    rb.state = "done" =>
        \A h \in Hosts : \A k \in DOMAIN store[h] \cap {kBad} :
            Owns(h, k) \/ k \in rb.failed

\* C8 as the code has it: after RebalanceLocalKeys has run on a node, every
\* key still present in the LocalStore of that node has the node among its
\* replicas, or a Router.Put for the key failed during the scan, or the ring
\* is empty
C8_OwnStoreOwnedOrFailed ==
    rb.state = "done" =>
        \A k \in DOMAIN store[rb.self] :
            \/ Owns(rb.self, k)
            \/ k \in rb.failed
            \/ Len(ring.hashes) = 0

\* a run has completed that moved a key away and left another in the store
C8_RunMovedAndLeft ==
    /\ rb.state = "done"
    /\ rb.moved # {}
    /\ DOMAIN store[rb.self] # {}

(***************************************************************************)
(* C9: if every Router.Put issued by RebalanceLocalKeys succeeds, the run  *)
(* eventually completes, and at completion the node is a replica of every  *)
(* key in its LocalStore.  (Stated for a run that is not cancelled, on a   *)
(* ring that is not empty.)                                                *)
(***************************************************************************)
C9_RebalanceCompletes ==
    (rb.state = "scanning")
        ~> \/ rb.state = "cancelled"
           \/ rb.failed # {}
           \/ /\ rb.state = "done"
              /\ \A k \in DOMAIN store[rb.self] :
                    Owns(rb.self, k) \/ Len(ring.hashes) = 0

\* the run is inside GetReplicasForKey, whose walk has visited every
\* physical node of the ring and goes on
C9_RunStuckInLookup ==
    /\ rb.state = "scanning"
    /\ rb.pc = "lookup"
    /\ call.pc = "loop"
    /\ call.ls.seen = PhysicalNodes(ring)
    /\ rb.failed = {}

(***************************************************************************)
(* C10: RebalanceLocalKeys deletes a key from the LocalStore only after    *)
(* the Router.Put for that key returned success; when the Put returns an   *)
(* error the local copy stays with its value and the scan goes on with the *)
(* next key; and in a re-run with every replica reachable the Put of a key *)
(* that could not be moved before succeeds and the key is removed.         *)
(***************************************************************************)
C10_DeleteOnlyAfterPut ==
    [][ rb.state = "scanning" =>
          /\ \A k \in DOMAIN store[rb.self] \ DOMAIN store'[rb.self] :
                rb.pc = "remove" /\ rb.put = "ok" /\ k = Head(rb.keys)
          /\ (rb.pc = "push" /\ rb'.put = "failed") =>
                /\ Holds(rb.self, Head(rb.keys), rb.val)
                /\ Head(rb.keys) \in DOMAIN store'[rb.self]
                /\ store'[rb.self][Head(rb.keys)] = rb.val
                /\ rb'.state = "scanning" /\ rb'.pc = "examine"
                /\ rb'.keys = Tail(rb.keys)
          /\ (rb.pc = "push" /\ Head(rb.keys) \in rb.prev /\ rb'.down = {}) =>
                rb'.put = "ok" /\ rb'.pc = "remove"
          /\ rb.pc = "remove" =>
                /\ Head(rb.keys) \notin DOMAIN store'[rb.self]
                /\ Head(rb.keys) \in rb'.moved
      ]_vars

\* a re-run has completed that moved a key whose Router.Put had failed in
\* the run before
C10_RerunMoved ==
    /\ rb.state = "done"
    /\ \E k \in rb.prev \cap rb.moved : k \notin DOMAIN store[rb.self]

(***************************************************************************)
(* C11: RebalanceLocalKeys is safe to re-run: once a run has completed     *)
(* with every Router.Put succeeding, and the ring and the stores are as    *)
(* that run left them, a further run on the same node moves no key, issues *)
(* no Router.Put and leaves the LocalStore of every node unchanged.        *)
(***************************************************************************)
\* the run in progress follows a completed run on the same node, and
\* nothing has changed since that run returned
Rerun ==
    /\ rb.state \in {"scanning", "done"}
    /\ hist.ok /\ hist.self = rb.self
    /\ hist.ring = ring /\ hist.store = store

C11_RerunIsNoOp ==
    [][ Rerun =>
          /\ store' = store
          /\ rb'.moved = {} /\ rb'.failed = {}
          /\ rb'.pc \notin {"push", "remove"}
      ]_vars

\* a re-run has completed, after a run that moved a key away, and it kept a
\* key
C11_RerunDone ==
    /\ Rerun
    /\ rb.state = "done"
    /\ rb.kept # {}
    /\ \E h \in Hosts \ {rb.self} : DOMAIN store[h] \ DOMAIN store[rb.self] # {}

(***************************************************************************)
(* C12: where two node ids map to the same host, a replica is treated as   *)
(* local only by id, and RebalanceLocalKeys loses no key: when it removes  *)
(* a key after a successful Router.Put, the key is still held, with the    *)
(* value it had, by the LocalStore of some node.  (Stated for a key and a  *)
(* value that are valid UTF-8.)                                            *)
(***************************************************************************)
C12_AliasKeepsKeys ==
    [][ /\ (last'.op = "put" /\ last'.returns) =>
               \A i \in 1..Len(last'.attempts) :
                   (last'.attempts[i].how = "local")
                       <=> (last'.attempts[i].node.ID = NodeIDOf(last'.self))
        /\ (/\ rb.state = "scanning" /\ rb.pc = "remove"
            /\ Head(rb.keys) = kRepl /\ rb.val = kRepl) =>
               \E h \in Hosts :
                   /\ Head(rb.keys) \in DOMAIN store'[h]
                   /\ store'[h][Head(rb.keys)] = rb.val
      ]_vars

\* the Router.Put of a rebalance run has succeeded, and one of the replicas
\* it wrote is the run's own host under another id
C12_PushedToOwnHost ==
    /\ rb.state = "scanning" /\ rb.pc = "remove" /\ rb.put = "ok"
    /\ Head(rb.keys) = kRepl /\ rb.val = kRepl
    /\ LET replicas == GetReplicasForKey(ring, Head(rb.keys), replicationFactor).replicas
       IN  \E i \in 1..Len(replicas) :
               /\ replicas[i].Host = rb.self
               /\ replicas[i].ID # NodeIDOf(rb.self)

(***************************************************************************)
(* C13: for every ring state, key and r, the list that GetReplicasForKey   *)
(* builds and returns holds no two entries with the same NodeInfo.ID.      *)
(***************************************************************************)
C13_DistinctIds ==
    call.pc \in {"loop", "returned"} =>
        \A i, j \in 1..Len(call.ls.replicas) :
            i # j => call.ls.replicas[i].ID # call.ls.replicas[j].ID

\* a call has returned two replicas after passing over a slot of a node it
\* had already collected
C13_SkippedSeenSlot ==
    /\ call.pc = "returned"
    /\ Len(call.ls.replicas) = 2
    /\ Len(ring.hashes) >= 4
    /\ (call.ls.idx + Len(ring.hashes) - StartIdx(ring, call.key))
           % Len(ring.hashes) = 3

(***************************************************************************)
(* C14: Router.Put and Router.Delete are idempotent: applying the same     *)
(* Put(k, v), or Delete(k), a second time with nothing in between leaves   *)
(* the LocalStore of every node as one application leaves it.  With the    *)
(* replicas in down unreachable in the first attempt and those in d in the *)
(* repeat, the stores end as after one application in which the replicas   *)
(* unreachable both times are unreachable: the same as once when down = d, *)
(* and as one successful application when the repeat reaches them all.     *)
(***************************************************************************)
C14_RepeatIsIdempotent ==
    [][ (last.op = "none" /\ last'.op \in {"put", "delete"} /\ last'.returns) =>
          \A d \in SUBSET RemoteHosts(last'.self, last'.key) :
              IF last'.op = "put"
              THEN RouterPut(store', last'.self, ring, replicationFactor,
                             last'.key, last'.value, d).store
                     = RouterPut(store, last'.self, ring, replicationFactor,
                                 last'.key, last'.value, last'.down \cap d).store
              ELSE RouterDelete(store', last'.self, ring, replicationFactor,
                                last'.key, d).store
                     = RouterDelete(store, last'.self, ring, replicationFactor,
                                    last'.key, last'.down \cap d).store
      ]_vars

\* a put has failed on one replica after writing the others, and the same
\* put again, with every replica reachable, would write what is missing
C14_PartialPutToRepeat ==
    /\ Returned("put") /\ last.err # ""
    /\ \E i \in 1..Len(last.attempts) : last.attempts[i].how = "transport"
    /\ \E i \in 1..Len(last.attempts) : last.attempts[i].how = "ok"
    /\ \E i \in 1..Len(last.attempts) : last.attempts[i].how = "local"
    /\ RouterPut(store, last.self, ring, replicationFactor,
                 last.key, last.value, {}).store # store

(***************************************************************************)
(* C15: in every state reached from NewRing by AddNode and RemoveNode      *)
(* calls, with colliding slots and ids added twice included, the slot      *)
(* sequence is sorted ascending and the key set of the hash -> node map is *)
(* exactly the set of hashes in the slot sequence.  (The map has a node    *)
(* for every slot is stated for the slots of the ids "gwzx" and "16cd",    *)
(* whose hashes collide.)                                                  *)
(***************************************************************************)
\* the slot hashes that the ids "gwzx" and "16cd" share
CollidingHashes == { hashFn(VKey(nGwzx, i)) : i \in 0..(VNodes - 1) }

C15_SortedAndCovered ==
    /\ \A i \in 1..(Len(ring.hashes) - 1) :
           ~U32Less(ring.hashes[i + 1], ring.hashes[i])
    /\ DOMAIN ring.hashMap \subseteq { ring.hashes[i] : i \in 1..Len(ring.hashes) }
    /\ \A i \in 1..Len(ring.hashes) :
           ring.hashes[i] \in CollidingHashes => ring.hashes[i] \in DOMAIN ring.hashMap

\* the ring holds the slots of the two nodes whose slot hashes collide: the
\* hash is in the sequence twice and the map has one node for it
C15_CollidingSlots ==
    /\ \E i, j \in 1..Len(ring.hashes) :
           /\ i # j
           /\ ring.hashes[i] = ring.hashes[j]
           /\ ring.hashes[i] = hashFn(VKey(nGwzx, 0))
    /\ PhysicalNodes(ring) = {n16cd}
    /\ C15_SortedAndCovered

(***************************************************************************)
(* C16: RemoveNode(id) removes every slot whose node id equals id and      *)
(* leaves the slots of the other nodes as they are; after it returns no    *)
(* GetReplicasForKey result holds a node with that id, and every NodeInfo  *)
(* returned is a node of the ring other than the removed one, never the    *)
(* zero NodeInfo; also with colliding slots and ids added twice.  (Stated  *)
(* for the removal of "gwzx" and "16cd", whose slot hashes collide.)       *)
(***************************************************************************)
\* the slots of a ring, each with the node the map has for it
Slots(r) == [i \in 1..Len(r.hashes) |->
                [hash |-> r.hashes[i], node |-> MapGet(r.hashMap, r.hashes[i])]]

\* the slots of r that do not belong to id
SlotsWithout(r, id) ==
    LET Other(slot) == slot.node.ID # id
    IN  SelectSeq(Slots(r), Other)

\* the nodes that own a slot of r
NodesOf(r) == { r.hashMap[h] : h \in DOMAIN r.hashMap }

C16_RemoveNodeFrame ==
    [][ \A n \in RingNodes :
          (/\ call.pc = "idle"
           /\ n.ID \in {nGwzx, n16cd}
           /\ ring' = RemoveNodeOp(ring, n.ID)) =>
              /\ Slots(ring') = SlotsWithout(ring, n.ID)
              /\ \A k \in Keys, r \in 1..MaxR :
                     LET g == GetReplicasForKey(ring', k, r)
                     IN  \A i \in 1..Len(g.replicas) :
                             /\ g.replicas[i].ID # n.ID
                             /\ g.replicas[i] # ZeroNode
                             /\ g.replicas[i] \in NodesOf(ring)
      ]_vars

\* a call on a ring from which a node with colliding slots was removed has
\* returned the zero NodeInfo
C16_ZeroNodeReturned ==
    /\ call.pc = "returned"
    /\ \E i \in 1..Len(call.ls.replicas) : call.ls.replicas[i] = ZeroNode
    /\ \E i \in 1..Len(ring.hashes) : ring.hashes[i] = hashFn(VKey(nGwzx, 0))

(***************************************************************************)
(* C17: RebalanceLocalKeys checks the cancellation handle before each key. *)
(* Once it finds the context cancelled it returns the cancellation error   *)
(* and examines, pushes and deletes no further key: the run goes from idle *)
(* to scanning and from scanning to done or cancelled, it is cancelled     *)
(* only between keys, and the keys not yet processed stay in the           *)
(* LocalStore unchanged.                                                   *)
(***************************************************************************)
\* the keys of the snapshot that the run has not processed
Unprocessed == { rb.keys[i] : i \in 1..Len(rb.keys) }

C17_CancelBetweenKeys ==
    [][ /\ rb.state = "idle" => rb'.state \in {"idle", "scanning"}
        /\ rb.state = "scanning" => rb'.state \in {"scanning", "done", "cancelled"}
        /\ rb.state \in {"done", "cancelled"} =>
               /\ rb'.state \in {rb.state, "idle"}
               /\ store' = store
               /\ rb'.state = rb.state => rb' = rb
        /\ (rb.state = "scanning" /\ rb'.state = "cancelled") =>
               /\ rb.pc = "examine"
               /\ store' = store
               /\ rb'.keys = rb.keys
               /\ rb'.moved = rb.moved /\ rb'.kept = rb.kept
               /\ rb'.failed = rb.failed
               /\ Unprocessed \cap (rb.moved \cup rb.kept \cup rb.failed) = {}
        /\ (rb.state = "scanning" /\ rb'.state = "scanning") =>
               \A k \in Unprocessed \ {Head(rb.keys)} :
                   /\ (k \in DOMAIN store[rb.self]) <=> (k \in DOMAIN store'[rb.self])
                   /\ k \in DOMAIN store[rb.self] =>
                          store'[rb.self][k] = store[rb.self][k]
      ]_vars

\* a run was cancelled after it had moved a key away, with a key of the
\* snapshot not yet processed and still in the LocalStore
C17_CancelledWithKeysLeft ==
    /\ rb.state = "cancelled"
    /\ rb.moved # {}
    /\ rb.keys # <<>>
    /\ Unprocessed \subseteq DOMAIN store[rb.self]

(***************************************************************************)
(* C18: no goroutine holds Ring.mu or Store.mu while it performs a         *)
(* transport call, and Router.Put, Get, Delete and RebalanceLocalKeys hold *)
(* at most one of the two at a time and none while they wait for one; so   *)
(* client requests, replica requests, ring mutations and a running         *)
(* rebalance cannot deadlock on these locks: whenever a goroutine is       *)
(* blocked on a mutex, the mutex can be granted or is held by a goroutine  *)
(* that is running inside its critical section.                            *)
(***************************************************************************)
\* the mutexes t holds
Held(t) ==
    { l \in {"ring", "store"} : t \in mu[l].readers \/ mu[l].writer = t }

\* t is blocked in a lock call
Blocked(t) == th[t].pc \in {"ring.RLock", "ring.Lock", "store.RLock", "store.Lock"}

\* the mutex t is blocked on
Wanted(t) == IF th[t].pc \in {"ring.RLock", "ring.Lock"} THEN mu.ring ELSE mu.store

\* t is inside a critical section: running, not waiting for anything
Running(t) == th[t].pc \in {"ring.walk", "ring.held", "store.rheld", "store.held"}

C18_NoLockAcrossTransport ==
    \A t \in DOMAIN th :
        /\ Cardinality(Held(t)) <= 1
        /\ th[t].pc = "transport" => Held(t) = {}
        /\ Blocked(t) => Held(t) = {}
        /\ Held(t) # {} => Running(t)
        /\ Blocked(t) =>
               \/ Wanted(t).readers = {} /\ Wanted(t).writer = ""
               \/ \E u \in DOMAIN th :
                      /\ u \in Wanted(t).readers \/ u = Wanted(t).writer
                      /\ Running(u)

\* the client is in a transport call while the rebalance holds the store
\* for reading, a ring mutation is blocked behind a reader of the ring, and
\* the replica handler is blocked behind the reader of the store
C18_TransportWhileLocked ==
    /\ th # NoThreads
    /\ th["client"].pc = "transport"
    /\ th["rebalance"].pc = "store.rheld"
    /\ th["replica"].pc = "store.Lock"
    /\ th["admin"].pc \in {"ring.Lock", "ring.held"}

(***************************************************************************)
(* C19: a write that is acknowledged while a rebalance is running is not   *)
(* lost.  When a put of k with value v2 is applied to the LocalStore of    *)
(* the node after its RebalanceLocalKeys run has read k's value and before *)
(* the run deletes k, then, once the run has finished, v2 is held for k by *)
(* the LocalStore of at least one node.                                    *)
(***************************************************************************)
C19_AckedWriteSurvives ==
    (/\ rb.state = "done"
     /\ last.op = "replica put" /\ last.status = 200) =>
        \E h \in Hosts : Holds(h, last.key, last.value)

\* the replica endpoint has answered 200 to a put of the key the run is
\* pushing, and the store holds the new value, not the one the run read
C19_WriteInTheWindow ==
    /\ rb.state = "scanning" /\ rb.pc = "push"
    /\ last.op = "replica put" /\ last.status = 200
    /\ last.key = Head(rb.keys)
    /\ Holds(rb.self, last.key, last.value)
    /\ last.value # rb.val

(***************************************************************************)
(* C20: RebalanceLocalKeys never deletes a key from a node that is a       *)
(* replica of the key at the moment of the deletion, also when AddNode or  *)
(* RemoveNode runs during the scan: the Router.Put that precedes the       *)
(* delete does not have the node among the replicas it writes, and the     *)
(* node is not a replica when line 235 deletes the key.                    *)
(***************************************************************************)
C20_NeverDeletesOwnReplica ==
    [][ /\ (rb.state = "scanning" /\ rb.pc = "push" /\ rb'.pc = "remove") =>
               ~Owns(rb.self, Head(rb.keys))
        /\ (/\ rb.state = "scanning" /\ rb.pc = "remove"
            /\ rb'.keys = Tail(rb.keys)) =>
               ~Owns(rb.self, Head(rb.keys))
      ]_vars

\* the ring has changed after the ownership test: the run is about to
\* delete a key that its Router.Put has just written to the node's own
\* LocalStore, the node being a replica of the key
C20_AboutToDeleteOwnCopy ==
    /\ rb.state = "scanning" /\ rb.pc = "remove" /\ rb.put = "ok"
    /\ Owns(rb.self, Head(rb.keys))
    /\ Holds(rb.self, Head(rb.keys), rb.val)

=============================================================================
